---- MODULE Spec2Model ----
(***************************************************************************)
(* FSRS scheduler of the flashcard application (src/app/fsrs.py).          *)
(*                                                                         *)
(* Real numbers are fixed-point integers: a value v of the program is the  *)
(* integer v * SCALE (four decimals, the precision of DEFAULT_PARAMS).     *)
(* math.pow and math.exp are computed, not assumed: Ln6 and Exp6 work on   *)
(* six decimals internally and round their result to four.  Time is in     *)
(* the same unit: one unit of the clock is 1/SCALE day.                    *)
(***************************************************************************)
EXTENDS Integers, Sequences, FiniteSets, TLC

\* ------------------------------------------------------------ arithmetic

\* Fixed-point unit of a program float (4 decimals) and its square root.
BASE4 == 100
SCALE == BASE4 * BASE4
\* Internal unit of pow/exp/log (6 decimals) and its square root.
BASE6 == 1000
SCALE6 == BASE6 * BASE6

Abs(x) == IF x < 0 THEN -x ELSE x
Sgn(x) == IF x < 0 THEN -1 ELSE 1
Max(a, b) == IF a >= b THEN a ELSE b
Min(a, b) == IF a <= b THEN a ELSE b

\* a * b of two non-negative fixed-point numbers of unit base*base, rounded
\* to nearest; split so that no intermediate product leaves 32 bits.
MulU(a, b, base) ==
    LET unit == base * base
        ah == a \div base
        al == a % base
        bh == b \div base
        bl == b % base
        t == ah * bl + al * bh
    IN  ah * bh + t \div base + (((t % base) * base + al * bl + unit \div 2) \div unit)

\* Float product x * y, any signs.
MulS(a, b, base) == Sgn(a) * Sgn(b) * MulU(Abs(a), Abs(b), base)
Mul(a, b) == MulS(a, b, BASE4)
Mul6(a, b) == MulS(a, b, BASE6)

\* Long division: `digits` more decimal digits of r / b appended to q.
RECURSIVE DivDigits(_, _, _, _)
DivDigits(q, r, b, digits) ==
    IF digits = 0
    THEN IF 2 * r >= b THEN q + 1 ELSE q
    ELSE DivDigits(10 * q + ((10 * r) \div b), (10 * r) % b, b, digits - 1)

\* a / b of fixed-point numbers, a >= 0, b > 0, rounded to nearest.
DivU(a, b, digits) == DivDigits(a \div b, a % b, b, digits)
\* Float quotient x / y, y # 0.
Div(a, b) == Sgn(a) * Sgn(b) * DivU(Abs(a), Abs(b), 4)
Div6(a, b) == Sgn(a) * Sgn(b) * DivU(Abs(a), Abs(b), 6)

\* Integer quotient rounded to nearest (n > 0).
RoundDiv(a, n) == Sgn(a) * ((Abs(a) + n \div 2) \div n)

RECURSIVE Pow2(_)
Pow2(k) == IF k = 0 THEN 1 ELSE 2 * Pow2(k - 1)

\* ln 2 in the internal unit.
LN2 == 693147

\* The binary exponent k with x / 2^k in [0.75, 1.5), x > 0 in the internal unit.
RECURSIVE Exponent(_, _)
Exponent(x, k) ==
    IF k >= 0
    THEN IF x \div Pow2(k) >= 3 * (SCALE6 \div 2) THEN Exponent(x, k + 1)
         ELSE IF k = 0 /\ x < 3 * (SCALE6 \div 4) THEN Exponent(x, -1)
         ELSE k
    ELSE IF x * Pow2(-k) < 3 * (SCALE6 \div 4) THEN Exponent(x, k - 1) ELSE k

\* Natural logarithm of x > 0, both in the internal unit:
\* x = m * 2^k, ln m = 2 atanh((m - 1) / (m + 1)).
Ln6(x) ==
    LET k == Exponent(x, 0)
        m == IF k >= 0 THEN RoundDiv(x, Pow2(k)) ELSE x * Pow2(-k)
        z == Div6(m - SCALE6, m + SCALE6)
        z2 == Mul6(z, z)
        s4 == SCALE6 \div 7 + Mul6(z2, SCALE6 \div 9)
        s3 == SCALE6 \div 5 + Mul6(z2, s4)
        s2 == SCALE6 \div 3 + Mul6(z2, s3)
        s1 == SCALE6 + Mul6(z2, s2)
    IN  k * LN2 + 2 * Mul6(z, s1)

\* Taylor series of e^r by Horner's rule, terms n .. 1.
RECURSIVE ExpSeries(_, _, _)
ExpSeries(r, n, acc) ==
    IF n = 0 THEN acc
    ELSE ExpSeries(r, n - 1, SCALE6 + RoundDiv(Mul6(r, acc), n))

\* e^x in the internal unit: x = k ln 2 + r with |r| <= ln 2 / 2.
Exp6(x) ==
    LET k == RoundDiv(x, LN2)
        r == x - k * LN2
        e == ExpSeries(r, 9, SCALE6)
    IN  IF k >= 0 THEN e * Pow2(k) ELSE RoundDiv(e, Pow2(-k))

\* math.exp(x)
Exp(x) == RoundDiv(Exp6(x * BASE4), BASE4)

\* math.pow(x, y) for x > 0
Pow(x, y) == RoundDiv(Exp6(Mul6(y * BASE4, Ln6(x * BASE4))), BASE4)

\* math.pow(a / b, y) for a > 0, b > 0: the quotient is kept in full (as the
\* difference of the logarithms), however small it is.
PowQuotient(a, b, y) ==
    RoundDiv(Exp6(Mul6(y * BASE4, Ln6(a * BASE4) - Ln6(b * BASE4))), BASE4)

\* ------------------------------------------------------------ scheduler

\* Timestamps count 1/SCALE day; a last_review of None is a card never reviewed.
None == -1

\* Default FSRS parameters w0..w20.
DEFAULT_PARAMS ==
    << 4072, 11829, 31262, 154722, 72102, 5316, 10651, 234, 16160, 1544, 9221,
       20063, 2272, 2281, 15662, 0, 29469, 2272, 28284, 0, 1500 >>

\* A second parameter list FSRS(params=...) accepts: a low baseline difficulty
\* w4 = 2.0 and a steep grade weight w5 = 4.5, the other weights as above.
SteepParams == [DEFAULT_PARAMS EXCEPT ![5] = 20000, ![6] = 45000]

\* desired_retention of FSRS.__init__
DesiredRetention == 9000

\* self.DECAY
DECAY == -5000

\* self.FACTOR = 0.9 ** (1 / self.DECAY) - 1
FACTOR == Pow(9000, Div(SCALE, DECAY)) - SCALE

VARIABLES
    w,       \* self.w: the parameter list of the scheduler
    card,    \* the card_state the caller holds for the card
    clock,   \* the system clock datetime.utcnow() reads
    last,    \* the last call of schedule_card: its arguments, clock reads and result
    reviews, \* the Review rows of the card, in the order they were committed
    req,     \* the review_card requests: where each is, and the card it loaded
    resp,    \* the last response of review_card: its status and the grade asked
    decks,   \* the number of decks uploaded so far
    deck     \* whether the deck's row is stored

vars == << w, card, clock, last, reviews, req, resp, decks, deck >>

\* self.w[i]
W(i) == w[i + 1]

calculate_retrievability(elapsed_days, stability) ==
    IF stability <= 0 THEN SCALE
    ELSE IF elapsed_days <= 0 THEN SCALE
    ELSE LET \* math.pow(t_over_s, DECAY) with t_over_s = elapsed_days / stability
             base == SCALE + Mul(FACTOR, PowQuotient(elapsed_days, stability, DECAY))
             r == Pow(base, DECAY)
         IN  Max(0, Min(SCALE, r))

calculate_interval(stability) ==
    LET desired_retention == DesiredRetention
        interval == Mul(Div(stability, FACTOR),
                        Pow(desired_retention, Div(SCALE, DECAY)) - SCALE)
    IN  Max(SCALE \div 10, interval)

\* init_difficulty without its clamp to [1, 10].
init_difficulty_unclamped(grade) == W(4) - Mul(W(5), (grade - 3) * SCALE)

init_difficulty(grade) ==
    LET d0 == W(4) - Mul(W(5), (grade - 3) * SCALE)
    IN  Max(SCALE, Min(10 * SCALE, d0))

\* init_stability with the lookup shifted by one grade.
init_stability_shifted(grade) ==
    IF grade = 1 THEN W(1)
    ELSE IF grade = 2 THEN W(2)
    ELSE IF grade = 3 THEN W(3)
    ELSE W(0)

init_stability(grade) ==
    IF grade = 1 THEN W(0)
    ELSE IF grade = 2 THEN W(1)
    ELSE IF grade = 3 THEN W(2)
    ELSE W(3)

next_difficulty(d, grade) ==
    LET delta_d == IF grade = 1 THEN Mul(-W(6), (grade - 3) * SCALE)
                   ELSE IF grade = 2 THEN Mul(-W(6), (grade - 3) * SCALE)
                   ELSE IF grade = 4 THEN Mul(-W(7), (grade - 3) * SCALE)
                   ELSE 0
        d_prime == d + Div(Mul(delta_d, 10 * SCALE - d), 9 * SCALE)
        mean_reversion == SCALE \div 2
        d_double_prime == Mul(mean_reversion, d_prime)
                          + Mul(SCALE - mean_reversion, W(4))
    IN  Max(SCALE, Min(10 * SCALE, d_double_prime))

\* The lapse formula without the min against the prior stability.
lapse_stability_no_min(s, d, r) ==
    LET new_s == Mul(Mul(Mul(W(11), Pow(d, -W(12))),
                         Pow(s + SCALE, W(13)) - SCALE),
                     Exp(Mul(W(10), SCALE - r)))
    IN  Max(SCALE \div 10, new_s)

\* The lapse formula of next_stability (grade Again), d > 0.
lapse_stability(s, d, r) ==
    LET new_s == Mul(Mul(Mul(W(11), Pow(d, -W(12))),
                         Pow(s + SCALE, W(13)) - SCALE),
                     Exp(Mul(W(10), SCALE - r)))
    IN  Min(s, Max(SCALE \div 10, new_s))

\* The success formula without the floor at 0.1.
success_stability_no_floor(s, d, r, grade) ==
    LET f_d == 11 * SCALE - d
        f_s == IF s > 0 THEN Pow(s, -W(9)) ELSE SCALE
        f_r == Exp(Mul(W(10), SCALE - r)) - SCALE
        w15_factor == IF grade = 2 THEN SCALE \div 2 ELSE SCALE
        w16_factor == IF grade = 2 THEN SCALE
                      ELSE IF grade = 4 THEN W(16)
                      ELSE SCALE
        s_inc == SCALE + Mul(Mul(Mul(Mul(Mul(Exp(W(8)), f_d), f_s), f_r),
                                 w15_factor), w16_factor)
    IN  Mul(s, s_inc)

\* The success formula with the Hard penalty applied to Easy instead.
success_stability_easy_penalty(s, d, r, grade) ==
    LET f_d == 11 * SCALE - d
        f_s == IF s > 0 THEN Pow(s, -W(9)) ELSE SCALE
        f_r == Exp(Mul(W(10), SCALE - r)) - SCALE
        w15_factor == IF grade = 4 THEN SCALE \div 2 ELSE SCALE
        w16_factor == SCALE
        s_inc == SCALE + Mul(Mul(Mul(Mul(Mul(Exp(W(8)), f_d), f_s), f_r),
                                 w15_factor), w16_factor)
        new_s == Mul(s, s_inc)
    IN  Max(SCALE \div 10, new_s)

\* The success formula of next_stability (grades Hard, Good, Easy).
success_stability(s, d, r, grade) ==
    LET f_d == 11 * SCALE - d
        f_s == IF s > 0 THEN Pow(s, -W(9)) ELSE SCALE
        f_r == Exp(Mul(W(10), SCALE - r)) - SCALE
        w15_factor == IF grade = 2 THEN SCALE \div 2 ELSE SCALE
        w16_factor == IF grade = 2 THEN SCALE
                      ELSE IF grade = 4 THEN W(16)
                      ELSE SCALE
        s_inc == SCALE + Mul(Mul(Mul(Mul(Mul(Exp(W(8)), f_d), f_s), f_r),
                                 w15_factor), w16_factor)
        new_s == Mul(s, s_inc)
    IN  Max(SCALE \div 10, new_s)

next_stability(s, d, r, grade, is_lapse) ==
    IF is_lapse \/ grade = 1
    THEN lapse_stability(s, d, r)
    ELSE success_stability(s, d, r, grade)

\* math.pow(d, -w12) raises ValueError for d <= 0 (a negative base with a
\* fractional exponent, or zero with a negative one): the lapse formula then
\* returns nothing.
lapse_raises(d, grade) == grade = 1 /\ d <= 0

\* The value schedule_card returns: raised = "" and the new state, or the
\* exception that left it.
Returned(v) == [raised |-> "", value |-> v]
NoValue ==
    [state |-> "none", stability |-> 0, difficulty |-> 0, retrievability |-> 0,
     interval |-> 0, due_date |-> 0, reps |-> 0, lapses |-> 0, last_review |-> None]
Raised(e) == [raised |-> e, value |-> NoValue]

\* next_state with the lapse of a reviewed card sent back to "learning".
next_state_relearn_as_learning(first, grade) ==
    IF grade = 1 THEN "learning" ELSE "review"

\* new_state of schedule_card: lines 217 (first review) and 236-240.
next_state(first, grade) ==
    IF first
    THEN (IF grade = 1 THEN "learning" ELSE "review")
    ELSE (IF grade = 1 THEN "relearning" ELSE "review")

\* next_lapses counting Hard as a lapse as well.
next_lapses_hard_counts(first, lapses, grade) ==
    IF grade <= 2 THEN lapses + 1 ELSE lapses

\* new_lapses of schedule_card: lines 218 (first review) and 236-241.
next_lapses(first, lapses, grade) ==
    IF first
    THEN (IF grade = 1 THEN lapses + 1 ELSE lapses)
    ELSE (IF grade = 1 THEN lapses + 1 ELSE lapses)

\* schedule_card(grade, card_state); utcnow1, utcnow2, utcnow3 are what the
\* three datetime.utcnow() calls (lines 222, 245, 256) read.
schedule_card(grade, card_state, utcnow1, utcnow2, utcnow3) ==
    LET state == card_state.state
        s == card_state.stability
        d == card_state.difficulty
        last_review == card_state.last_review
        reps == card_state.reps
        lapses == card_state.lapses
        first == state = "new" \/ reps = 0
        r == IF first THEN card_state.retrievability
             ELSE IF last_review # None
                  THEN calculate_retrievability(utcnow1 - last_review, s)
                  ELSE SCALE
        new_d == IF first THEN init_difficulty(grade) ELSE next_difficulty(d, grade)
        is_lapse == grade = 1
        new_s == IF first THEN init_stability(grade)
                 ELSE next_stability(s, d, r, grade, is_lapse)
        new_state == next_state(first, grade)
        new_lapses == next_lapses(first, lapses, grade)
        new_interval == calculate_interval(new_s)
        new_due == utcnow2 + new_interval
    IN  IF ~first /\ lapse_raises(d, grade)
        THEN Raised("ValueError")
        ELSE Returned([state |-> new_state,
                       stability |-> new_s,
                       difficulty |-> new_d,
                       retrievability |-> r,
                       interval |-> new_interval,
                       due_date |-> new_due,
                       reps |-> reps + 1,
                       lapses |-> new_lapses,
                       last_review |-> utcnow3])

\* The card_state dict a caller builds from a card (routes.py, review_card).
card_state_of(c) ==
    [state |-> c.state, stability |-> c.stability, difficulty |-> c.difficulty,
     retrievability |-> c.retrievability, last_review |-> c.last_review,
     reps |-> c.reps, lapses |-> c.lapses]

\* The card after the caller stored the returned state in it.
updated(c, new_state) ==
    [c EXCEPT !.state = new_state.state,
              !.stability = new_state.stability,
              !.difficulty = new_state.difficulty,
              !.retrievability = new_state.retrievability,
              !.interval = new_state.interval,
              !.due_date = new_state.due_date,
              !.reps = new_state.reps,
              !.lapses = new_state.lapses,
              !.last_review = new_state.last_review]

\* ------------------------------------------------------------ bounds

\* Reviews of one card the model follows.
MaxReps == 2
\* Largest stability (days) a card is reviewed with.
MaxStability == 100
\* Clock units that can pass between two utcnow() reads of one call.
MaxJitter == 1
\* Days the clock starts after time 0, and days one Tick adds.
TickDays == 10
\* Largest clock value, in days.
MaxClock == 21

Grades == 0 .. 5
ValidGrades == 1 .. 4
States == {"new", "learning", "review", "relearning"}
ParamSets == {DEFAULT_PARAMS, SteepParams}
PriorStability == {0, SCALE \div 20, MaxStability * SCALE}
PriorDifficulty == {-20 * SCALE, SCALE, 5 * SCALE, 10 * SCALE, 30 * SCALE}
PriorRetrievability == {SCALE, 3 * (SCALE \div 2)}
Jitters == {<<0, 0>>, <<MaxJitter, 0>>, <<0, MaxJitter>>}

\* review_card requests in flight at once, and Review rows of the card.
NumRequests == 2
MaxReviews == 2

\* Requests are taken up while overlapping others only as long as fewer than
\* this many reviews are stored.
MaxOverlapReviews == 1

\* Decks uploaded, the first included.
MaxDecks == 2

\* The body of a review_card request: a JSON object, whose 'grade' is a
\* grade or is missing (None); JSON that is no object (null, a list, a
\* number, a string); or no JSON at all.
Body(kind, grade) == [kind |-> kind, grade |-> grade]
Bodies ==
    {Body("object", g) : g \in Grades \cup {None}}
        \cup {Body("not_object", None), Body("not_json", None)}

\* Bodies of the requests that may overlap: Again, an invalid grade and a
\* body that is no object.
OverlapBodies ==
    {Body("object", g) : g \in {1, 5}} \cup {Body("not_object", None)}

\* ------------------------------------------------------------ state machine

\* last.turn alternates at every call: a step is a call of schedule_card
\* exactly when it changes last.turn.
NoCall ==
    [called |-> FALSE, turn |-> 0, grade |-> 3,
     utcnow1 |-> 0, utcnow2 |-> 0, utcnow3 |-> 0, raised |-> ""]

\* A worker serving a request.  review_card: holding the grade of its
\* request and the card it loaded; then also the new state it assigned to its
\* copy of the card, not committed yet; then, after the commit and while it
\* builds its answer, the id of the Review it stored.  delete_deck: holding
\* the deck; then also the card it loaded with it; then also the ids of the
\* Review rows it loaded with the card (no card, no ids, when it found none).
Requests == 1 .. NumRequests
Idle == [pc |-> "idle", grade |-> 3, card |-> NoValue, new_state |-> NoValue, ids |-> {}]
Loaded(grade, c) ==
    [pc |-> "loaded", grade |-> grade, card |-> c, new_state |-> NoValue, ids |-> {}]
Scheduled(grade, c, new_state) ==
    [pc |-> "scheduled", grade |-> grade, card |-> c, new_state |-> new_state, ids |-> {}]
Committed(grade, id) ==
    [pc |-> "committed", grade |-> grade, card |-> NoValue, new_state |-> NoValue,
     ids |-> {id}]
Answering(grade, ids) ==
    [pc |-> "answering", grade |-> grade, card |-> NoValue, new_state |-> NoValue,
     ids |-> ids]
DeletingDeck ==
    [pc |-> "deleting_deck", grade |-> 3, card |-> NoValue, new_state |-> NoValue,
     ids |-> {}]
DeletingCards(c) ==
    [pc |-> "deleting_cards", grade |-> 3, card |-> c, new_state |-> NoValue, ids |-> {}]
Deleting(c, ids) ==
    [pc |-> "deleting", grade |-> 3, card |-> c, new_state |-> NoValue, ids |-> ids]
\* The card's row after its deck was deleted: none.
NoCard ==
    [state |-> "deleted", stability |-> 0, difficulty |-> 0, retrievability |-> 0,
     interval |-> 0, due_date |-> 0, reps |-> 0, lapses |-> 0, last_review |-> None]
\* A response of review_card to a request whose body was an object with
\* this grade; status 0 before any.
Response(status, grade) == [status |-> status, grade |-> grade, kind |-> "object"]

Init ==
    /\ w \in ParamSets
    /\ clock = TickDays * SCALE
    /\ card \in [state : States,
                 difficulty : PriorDifficulty,
                 stability : PriorStability,
                 retrievability : PriorRetrievability,
                 due_date : {TickDays * SCALE},
                 last_review : {None, 0},
                 interval : {0},
                 reps : {0, 1},
                 lapses : {0}]
    /\ last = NoCall
    /\ reviews = << >>
    /\ req = [p \in Requests |-> Idle]
    /\ resp = Response(0, 3)
    /\ decks = 1
    /\ deck = TRUE

\* One call of schedule_card on the card's state; the caller stores the
\* returned state in the card (routes.py, review_card, lines 98-109).
Schedule(grade, j) ==
    /\ card.reps < MaxReps
    /\ card.stability <= MaxStability * SCALE
    /\ \E got \in {schedule_card(grade, card_state_of(card),
                                 clock, clock + j[1], clock + j[1] + j[2])} :
           /\ last' = [called |-> TRUE, turn |-> 1 - last.turn, grade |-> grade,
                       utcnow1 |-> clock, utcnow2 |-> clock + j[1],
                       utcnow3 |-> clock + j[1] + j[2], raised |-> got.raised]
           /\ card' = IF got.raised = "" THEN updated(card, got.value) ELSE card
           /\ clock' = IF got.raised = "" THEN clock + j[1] + j[2] ELSE clock
    /\ UNCHANGED << w, reviews, req, resp, decks, deck >>

\* Time passes between two calls.
Tick ==
    /\ clock + TickDays * SCALE <= MaxClock * SCALE
    /\ clock' = clock + TickDays * SCALE
    /\ UNCHANGED << w, card, last, reviews, req, resp, decks, deck >>

Next ==
    \/ \E grade \in Grades, j \in Jitters : Schedule(grade, j)
    \/ Tick

Spec == Init /\ [][Next]_vars

\* ------------------------------------------------------------ application

\* A card as the upload creates it (models.py defaults, routes.py upload_deck).
NewCard(now) ==
    [state |-> "new", difficulty |-> 5 * SCALE, stability |-> 0,
     retrievability |-> SCALE, due_date |-> now, last_review |-> None,
     interval |-> 0, reps |-> 0, lapses |-> 0]

\* review_card's check of the grade, accepting 5 as well.
valid_grade_upto5(grade) == grade \in {1, 2, 3, 4, 5}

\* grade in [1, 2, 3, 4] (routes.py line 77)
valid_grade(grade) == grade \in {1, 2, 3, 4}

\* The Review row review_card adds, with its primary key; first tells which
\* branch schedule_card took (it is no column of the row).
Review(id, grade, before, after) ==
    [id |-> id,
     grade |-> grade,
     state_before |-> before.state,
     difficulty_before |-> before.difficulty,
     stability_before |-> before.stability,
     retrievability_before |-> before.retrievability,
     difficulty_after |-> after.difficulty,
     stability_after |-> after.stability,
     interval_after |-> after.interval,
     first |-> (before.state = "new" \/ before.reps = 0)]

\* A response of review_card to a request with this body.
Answer(status, body) == [status |-> status, grade |-> body.grade, kind |-> body.kind]

\* db.session.commit() of a changed card: the UPDATE sets the columns whose
\* value differs from the one the request loaded, in the row as it is now.
flushed(row, loaded, changed) ==
    [f \in DOMAIN row |-> IF changed[f] # loaded[f] THEN changed[f] ELSE row[f]]

AppInit ==
    /\ w = DEFAULT_PARAMS
    /\ clock = TickDays * SCALE
    /\ card = NewCard(TickDays * SCALE)
    /\ last = NoCall
    /\ reviews = << >>
    /\ req = [p \in Requests |-> Idle]
    /\ resp = Response(0, 3)
    /\ decks = 1
    /\ deck = TRUE

\* review_card, lines 73-78: load the card (404 when there is none), read
\* the body and its grade, and answer 400 to a grade that is not 1..4.  A
\* body that is JSON but no object makes data.get raise (500); for a body
\* that is no JSON request.get_json() ends the request (400 or 415) or gives
\* None (500).  The request goes to the first free worker.
review_card_load(p, body) ==
    /\ req[p].pc = "idle"
    /\ \A q \in Requests : q < p => req[q].pc # "idle"
    /\ Len(reviews) < MaxReviews
    /\ card.stability <= MaxStability * SCALE
    /\ IF card = NoCard
       THEN /\ resp' = Answer(404, body)
            /\ UNCHANGED req
       ELSE IF body.kind = "not_json"
       THEN /\ \E status \in {400, 415, 500} : resp' = Answer(status, body)
            /\ UNCHANGED req
       ELSE IF body.kind = "not_object"
       THEN /\ resp' = Answer(500, body)
            /\ UNCHANGED req
       ELSE IF valid_grade(body.grade)
       THEN /\ req' = [req EXCEPT ![p] = Loaded(body.grade, card)]
            /\ UNCHANGED resp
       ELSE /\ resp' = Answer(400, body)
            /\ UNCHANGED req
    /\ UNCHANGED << w, card, clock, last, reviews, decks, deck >>

\* review_card, lines 80-122: schedule the card as it was loaded, assign the
\* new state to the worker's copy and build the Review; the database is not
\* written yet.  An exception of schedule_card ends the request with 500.
\* (last records the direct calls of Schedule only.)
review_card_schedule(p, j) ==
    /\ req[p].pc = "loaded"
    /\ LET loaded == req[p].card
           grade == req[p].grade
       IN  \E got \in {schedule_card(grade, card_state_of(loaded),
                                     clock, clock + j[1], clock + j[1] + j[2])} :
               /\ IF got.raised = ""
                  THEN /\ req' = [req EXCEPT ![p] = Scheduled(grade, loaded, got.value)]
                       /\ clock' = clock + j[1] + j[2]
                       /\ UNCHANGED resp
                  ELSE /\ req' = [req EXCEPT ![p] = Idle]
                       /\ resp' = Response(500, grade)
                       /\ UNCHANGED clock
    /\ UNCHANGED << w, card, last, reviews, decks, deck >>

\* The primary key of a new Review row: one more than the largest stored
\* (an integer primary key without AUTOINCREMENT, models.py line 93).
next_id(rows) ==
    IF rows = << >> THEN 1
    ELSE 1 + (CHOOSE m \in {rows[i].id : i \in DOMAIN rows} :
                  \A i \in DOMAIN rows : rows[i].id <= m)

\* review_card, lines 124-125: db.session.commit() writes the changed columns
\* of the card and inserts the Review.  When the row is gone the UPDATE
\* matches no row, the commit raises and nothing is stored.
review_card_commit(p) ==
    /\ req[p].pc = "scheduled"
    /\ LET loaded == req[p].card
           grade == req[p].grade
           new_state == req[p].new_state
           id == next_id(reviews)
       IN  IF card = NoCard
           THEN /\ resp' = Response(500, grade)
                /\ req' = [req EXCEPT ![p] = Idle]
                /\ UNCHANGED << card, reviews >>
           ELSE /\ card' = flushed(card, loaded, updated(loaded, new_state))
                /\ reviews' = Append(reviews, Review(id, grade, loaded, new_state))
                /\ req' = [req EXCEPT ![p] = Committed(grade, id)]
                /\ UNCHANGED resp
    /\ UNCHANGED << w, clock, last, decks, deck >>

\* review_card, line 128: card.to_dict() reads the card's row again (the
\* commit expired it); when the row is gone it raises.
review_card_respond_card(p) ==
    /\ req[p].pc = "committed"
    /\ IF card = NoCard
       THEN /\ resp' = Response(500, req[p].grade)
            /\ req' = [req EXCEPT ![p] = Idle]
       ELSE /\ req' = [req EXCEPT ![p] = Answering(req[p].grade, req[p].ids)]
            /\ UNCHANGED resp
    /\ UNCHANGED << w, card, clock, last, reviews, decks, deck >>

\* review_card, line 129: review.to_dict() reads the Review's row again;
\* when the row is gone it raises, else the request answers 200.
review_card_respond_review(p) ==
    /\ req[p].pc = "answering"
    /\ LET found == \E i \in DOMAIN reviews : reviews[i].id \in req[p].ids
       IN  resp' = Response(IF found THEN 200 ELSE 500, req[p].grade)
    /\ req' = [req EXCEPT ![p] = Idle]
    /\ UNCHANGED << w, card, clock, last, reviews, decks, deck >>

\* delete_deck, line 40: get the deck (404, and nothing else, when there is
\* none).  The request goes to the first free worker.
delete_deck_get(p) ==
    /\ req[p].pc = "idle"
    /\ \A q \in Requests : q < p => req[q].pc # "idle"
    /\ deck
    /\ req' = [req EXCEPT ![p] = DeletingDeck]
    /\ UNCHANGED << w, card, clock, last, reviews, resp, decks, deck >>

\* delete_deck, line 41: db.session.delete(deck) first loads deck.cards, the
\* cards whose deck_id is the deck's.
delete_deck_cards(p) ==
    /\ req[p].pc = "deleting_deck"
    /\ req' = [req EXCEPT ![p] = IF card = NoCard THEN Deleting(NoValue, {})
                                 ELSE DeletingCards(card)]
    /\ UNCHANGED << w, card, clock, last, reviews, resp, decks, deck >>

\* delete_deck, line 41: then, for the card it loaded, card.reviews.
delete_deck_reviews(p) ==
    /\ req[p].pc = "deleting_cards"
    /\ req' = [req EXCEPT ![p] =
                  Deleting(req[p].card, {reviews[i].id : i \in DOMAIN reviews})]
    /\ UNCHANGED << w, card, clock, last, reviews, resp, decks, deck >>

\* The rows of a sequence that stay when those with the given ids are deleted.
RECURSIVE without(_, _)
without(rows, ids) ==
    IF rows = << >> THEN << >>
    ELSE IF Head(rows).id \in ids THEN without(Tail(rows), ids)
    ELSE << Head(rows) >> \o without(Tail(rows), ids)

\* delete_deck, line 42: db.session.commit() deletes, by primary key, the
\* Review rows and the card that were loaded, and the deck; a row that is
\* gone already is no error.  A card or a Review stored since stays (no
\* foreign key is enforced).
delete_deck_commit(p) ==
    /\ req[p].pc = "deleting"
    /\ card' = IF req[p].card = NoValue THEN card ELSE NoCard
    /\ reviews' = without(reviews, req[p].ids)
    /\ deck' = FALSE
    /\ req' = [req EXCEPT ![p] = Idle]
    /\ UNCHANGED << w, clock, last, resp, decks >>

\* upload_deck (routes.py lines 132-193) into a database that holds no deck:
\* the new deck gets the primary key of the deleted one, and so does the new
\* card when the card's row is gone; a card that is still stored belongs to
\* the new deck by its deck_id.
upload_deck ==
    /\ ~deck
    /\ decks < MaxDecks
    /\ deck' = TRUE
    /\ decks' = decks + 1
    /\ card' = IF card = NoCard THEN NewCard(clock) ELSE card
    /\ UNCHANGED << w, clock, last, reviews, req, resp >>

AppNext ==
    \/ \E p \in Requests, body \in OverlapBodies :
           /\ Len(reviews) < MaxOverlapReviews
           /\ review_card_load(p, body)
    \/ \E p \in Requests, j \in Jitters : review_card_schedule(p, j)
    \/ \E p \in Requests : review_card_commit(p)
    \/ \E p \in Requests : review_card_respond_card(p)
    \/ \E p \in Requests : review_card_respond_review(p)
    \/ \E p \in Requests : delete_deck_get(p)
    \/ \E p \in Requests : delete_deck_cards(p)
    \/ \E p \in Requests : delete_deck_reviews(p)
    \/ \E p \in Requests : delete_deck_commit(p)
    \/ upload_deck
    \/ Tick

AppSpec == AppInit /\ [][AppNext]_vars

\* Requests served one after the other: a request is taken up only when no
\* other request is being served.
SeqNext ==
    \/ \E p \in Requests, body \in Bodies :
           /\ \A q \in Requests : req[q].pc = "idle"
           /\ review_card_load(p, body)
    \/ \E p \in Requests, j \in Jitters : review_card_schedule(p, j)
    \/ \E p \in Requests : review_card_commit(p)
    \/ \E p \in Requests : review_card_respond_card(p)
    \/ \E p \in Requests : review_card_respond_review(p)
    \/ \E p \in Requests :
           /\ \A q \in Requests : req[q].pc = "idle"
           /\ delete_deck_get(p)
    \/ \E p \in Requests : delete_deck_cards(p)
    \/ \E p \in Requests : delete_deck_reviews(p)
    \/ \E p \in Requests : delete_deck_commit(p)
    \/ /\ \A q \in Requests : req[q].pc = "idle"
       /\ upload_deck
    \/ Tick

SeqSpec == AppInit /\ [][SeqNext]_vars

\* ------------------------------------------------------------ properties

\* A step is a call of schedule_card; one that returned a state; one with a
\* grade 1..4 that returned a state.  The unprimed card is the prior state,
\* the primed card holds the returned state.
IsCall == last'.turn # last.turn
IsReturn == IsCall /\ last'.raised = ""
IsReview == IsReturn /\ last'.grade \in ValidGrades
\* The first-review branch is taken for the prior state.
FirstReview == card.state = "new" \/ card.reps = 0
\* The last call returned the state the card now holds.
HasReturned == last.called /\ last.raised = ""

\* C1: the new stage depends on the grade and the branch only: first review,
\* Learning on Again and Review otherwise; a card with history, Relearning on
\* Again and Review otherwise, whatever the prior stage.
C1_NewStage ==
    [][IsReview =>
         card'.state = IF FirstReview
                       THEN (IF last'.grade = 1 THEN "learning" ELSE "review")
                       ELSE (IF last'.grade = 1 THEN "relearning" ELSE "review")]_vars

\* A card with history was graded Again and is relearning.
C1_Witness ==
    HasReturned /\ last.grade = 1 /\ card.state = "relearning" /\ card.reps = 2

\* C2: every review with a valid grade adds one to reps, and one to lapses
\* exactly when the grade is Again; no step ever decreases either count.
C2_Counts ==
    [][/\ card'.reps >= card.reps
       /\ card'.lapses >= card.lapses
       /\ IsReview =>
            /\ card'.reps = card.reps + 1
            /\ card'.lapses = IF last'.grade = 1 THEN card.lapses + 1
                              ELSE card.lapses]_vars

\* Two reviews of one card, the first a lapse and the second not.
C2_Witness ==
    HasReturned /\ last.grade = 2 /\ card.reps = 2 /\ card.lapses = 1

\* C3: a grade outside 1..4 makes schedule_card fail with InvalidGrade and
\* return no state.
C3_InvalidGradeFails ==
    (last.called /\ last.grade \notin ValidGrades) => last.raised = "InvalidGrade"

\* The prior state is in the domain the properties quantify over:
\* stability in [0, 100] and difficulty in [1, 10].
PriorInDomain ==
    /\ 0 <= card.stability /\ card.stability <= 100 * SCALE
    /\ SCALE <= card.difficulty /\ card.difficulty <= 10 * SCALE

\* C4 as stated: for a valid grade and a prior state in the domain the returned
\* stability is at least 0.1, the lapse path included.
C4_StabilityFloor ==
    [][(IsReview /\ PriorInDomain) => card'.stability >= SCALE \div 10]_vars

\* C4 as amended: the returned stability is at least 0.1 except on the lapse
\* path of a card whose prior stability S is below 0.1, where
\* min(S, max(0.1, S_raw)) is S itself.
C4_StabilityFloorOrPrior ==
    [][(IsReview /\ PriorInDomain) =>
         \/ card'.stability >= SCALE \div 10
         \/ /\ ~FirstReview
            /\ last'.grade = 1
            /\ card.stability < SCALE \div 10
            /\ card'.stability = card.stability]_vars

\* A lapse of a card with history and stability 0.05: the card keeps 0.05.
C4_Witness ==
    /\ HasReturned /\ last.grade = 1 /\ card.state = "relearning"
    /\ card.reps = 2 /\ card.stability = SCALE \div 20

\* C5: for a valid grade and a prior state in the domain the returned
\* retrievability is in [0, 1], in the first-review branch as in the other.
C5_RetrievabilityRange ==
    [][(IsReview /\ PriorInDomain) =>
         (0 <= card'.retrievability /\ card'.retrievability <= SCALE)]_vars

\* C6: every state returned for a valid grade has its difficulty in [1, 10],
\* whatever the prior difficulty and the weights.
C6_DifficultyRange ==
    (HasReturned /\ last.grade \in ValidGrades) =>
        (SCALE <= card.difficulty /\ card.difficulty <= 10 * SCALE)

\* A first review graded Again under the steep weights: w4 - w5 * (1 - 3) = 11
\* is clamped to 10.
C6_Witness ==
    /\ HasReturned /\ last.grade = 1 /\ w = SteepParams
    /\ card.reps = 1 /\ card.difficulty = 10 * SCALE

\* C7: a review graded Again of a card with history returns a stability no
\* larger than the prior stability.
C7_LapseNeverIncreases ==
    [][(IsReturn /\ last'.grade = 1 /\ ~FirstReview) =>
         card'.stability <= card.stability]_vars

\* A lapse of a card reviewed once before, which left it a stability above
\* the floor 0.1 and below the 100 days it can have had.
C7_Witness ==
    /\ HasReturned /\ last.grade = 1 /\ card.state = "relearning"
    /\ card.reps = 2 /\ card.lapses = 1
    /\ card.stability > SCALE /\ card.stability < 100 * SCALE

\* C8: a first review returns stability w0, w1, w2, w3 for Again, Hard, Good,
\* Easy and difficulty w4 - w5 * (grade - 3) clamped to [1, 10], whatever the
\* prior stability, difficulty, last review and the time.
C8_FirstReview ==
    [][(IsReview /\ FirstReview) =>
         /\ card'.stability = w[last'.grade]
         /\ card'.difficulty =
                Max(SCALE, Min(10 * SCALE, w[5] - (last'.grade - 3) * w[6]))]_vars

\* The first review of a card, graded Easy under the default weights:
\* stability w3 and difficulty 7.2102 - 0.5316.
C8_Witness ==
    /\ HasReturned /\ last.grade = 4 /\ w = DEFAULT_PARAMS /\ card.reps = 1
    /\ card.stability = 154722 /\ card.difficulty = 66786

\* The card's state is an input of the success branch the model can compute:
\* S in [0, MaxStability], D in [1, 10], R in [0, 1].
SuccessInput ==
    /\ 0 <= card.stability /\ card.stability <= MaxStability * SCALE
    /\ SCALE <= card.difficulty /\ card.difficulty <= 10 * SCALE
    /\ 0 <= card.retrievability /\ card.retrievability <= SCALE

\* C9: in the success branch, for fixed S, D and R, Easy yields at least the
\* stability of Good, and Good at least that of Hard.
C9_GradeMonotone ==
    SuccessInput =>
        LET S == card.stability
            D == card.difficulty
            R == card.retrievability
        IN  /\ next_stability(S, D, R, 4, FALSE) >= next_stability(S, D, R, 3, FALSE)
            /\ next_stability(S, D, R, 3, FALSE) >= next_stability(S, D, R, 2, FALSE)

\* A reviewed card with R < 1, for which the three grades differ strictly.
C9_Witness ==
    /\ HasReturned /\ SuccessInput /\ card.retrievability < SCALE
    /\ LET S == card.stability
           D == card.difficulty
           R == card.retrievability
       IN  /\ next_stability(S, D, R, 4, FALSE) > next_stability(S, D, R, 3, FALSE)
           /\ next_stability(S, D, R, 3, FALSE) > next_stability(S, D, R, 2, FALSE)

\* C10: one timestamp serves the whole call: in the returned state
\* last_review is that time and due_date is that time plus the interval, so
\* due_date - last_review is the interval exactly.
C10_OneTimestamp ==
    HasReturned => card.due_date - card.last_review = card.interval

\* ------------------------------------------------------------ review_card

\* C11: a review_card request whose body gives no grade among 1, 2, 3, 4 is
\* answered with an error, leaves every field of the card as it was and
\* stores no Review.  The error is 404 when the card does not exist, else 400
\* when the body is an object (its grade invalid or missing), 500 when it is
\* JSON but no object, 400, 415 or 500 when it is no JSON.  No worker goes on
\* with such a grade and no stored Review carries one.
C11_InvalidGradeRejected ==
    [][/\ (resp' # resp /\ resp'.grade \notin ValidGrades) =>
              /\ resp'.status \in
                     (IF card = NoCard THEN {404}
                      ELSE IF resp'.kind = "object" THEN {400}
                      ELSE IF resp'.kind = "not_object" THEN {500}
                      ELSE {400, 415, 500})
              /\ card' = card
              /\ reviews' = reviews
              /\ req' = req
       /\ \A p \in Requests : req'[p].pc # "idle" => req'[p].grade \in ValidGrades
       /\ \A i \in 1 .. Len(reviews') : reviews'[i].grade \in ValidGrades]_vars

\* A card that was reviewed once, and then a request with grade 5 was rejected.
C11_Witness ==
    /\ resp = Response(400, 5)
    /\ card.reps = 1 /\ Len(reviews) = 1

\* C12: after any interleaving of review_card requests the card's reps equals
\* the number of Review records stored for it.
C12_RepsCountReviews ==
    card # NoCard => card.reps = Len(reviews)

\* C13: from a newly created card, with reviews served one after another: the
\* first-review branch is taken by the first review and by no other, the
\* state is "new" exactly before the first review, "learning" can only be the
\* state after the first review, reps counts the reviews, and lapses <= reps.
C13_Lifecycle ==
    card # NoCard =>
    /\ card.lapses <= card.reps
    /\ card.reps = Len(reviews)
    /\ card.state = "new" <=> reviews = << >>
    /\ \A i \in 1 .. Len(reviews) :
           /\ reviews[i].first <=> i = 1
           /\ reviews[i].state_before = "new" <=> i = 1
           /\ i > 1 => reviews[i].state_before \in {"learning", "review", "relearning"}
    /\ Len(reviews) = 1 => card.state \in {"learning", "review"}
    /\ Len(reviews) >= 2 => card.state \in {"review", "relearning"}

\* Two reviews graded Again of a card uploaded after its deck was deleted and
\* uploaded again: the first through the first-review branch into "learning",
\* the second through the history branch into "relearning".
C13_Witness ==
    /\ decks = 2
    /\ Len(reviews) = 2
    /\ reviews[1].first /\ reviews[1].grade = 1
    /\ ~reviews[2].first /\ reviews[2].grade = 1 /\ reviews[2].state_before = "learning"
    /\ card.state = "relearning" /\ card.reps = 2 /\ card.lapses = 2

====
